---- MODULE Spec2Model ----
(***************************************************************************)
(* Guild-raid pages of TacticusAgent (src/app.py): the /guild-raid         *)
(* leaderboard (guild_raid), the per-player breakdown of one boss          *)
(* encounter (guild_raid_boss), the refresh of the cached raid data        *)
(* (update) and the saving of display names (api_save_username), served    *)
(* by the threads of the Flask server over the files of the data           *)
(* directory.                                                              *)
(*                                                                         *)
(* Python values are modelled as tagged records, so that a JSON null and   *)
(* an absent key stay different from every integer and string:             *)
(*   PyInt(n) a Python int         PyStr(s) a Python str                   *)
(*   None     Python None          Frac    a non-integral float, kept as   *)
(*                                         the exact reduced fraction      *)
(*   Sqrt(q)  the float sqrt(q), q an exact fraction (statistics.stdev)    *)
(* A Python dict read from JSON is a TLA+ record whose DOMAIN is the set   *)
(* of keys present.  A computation that can raise returns                  *)
(* [exc |-> name of the exception or "", val |-> value].                   *)
(*                                                                         *)
(* State:                                                                  *)
(*   data_dir   whether the data directory exists; nothing removes it      *)
(*   raid       entries of the last answer of the API to GET /guildRaid    *)
(*   cache      the file guild_raid.json                                   *)
(*   usernames  the file usernames.json                                    *)
(*   page       the thread serving /guild-raid and /guild-raid/boss        *)
(*   updating   the thread serving /update and /player                     *)
(*   saving     per user, the thread serving that user's POST              *)
(*              /api/username                                              *)
(*   entries, bosses, stdev_calls, boss, players                           *)
(*              the raid page rendered by the last step: the entries it    *)
(*              was computed from, the leaderboard, the arguments of the   *)
(*              calls of statistics.stdev, the encounter of the breakdown  *)
(*              and the breakdown                                          *)
(***************************************************************************)
EXTENDS Integers, Sequences, FiniteSets, TLC

VARIABLES data_dir, raid, cache, usernames, page, updating, saving, entries, bosses, stdev_calls, boss, players

vars == <<data_dir, raid, cache, usernames, page, updating, saving,
          entries, bosses, stdev_calls, boss, players>>

---------------------------------------------------------------------------
(* Bounds of the model *)

MaxEntries == 3

MaxDamage == 2

MaxOddEntries == 2

MaxRankEntries == 2

---------------------------------------------------------------------------
(* Python values *)

PyInt(n) == [int |-> n]

PyStr(s) == [str |-> s]

None == [none |-> TRUE]

IsInt(v) == DOMAIN v = {"int"}

IsStr(v) == DOMAIN v = {"str"}

RECURSIVE GCD(_, _)
GCD(a, b) == IF b = 0 THEN a ELSE GCD(b, a % b)

\* the rational n/d (n >= 0, d > 0) in lowest terms
Frac(n, d) == [num |-> n \div GCD(n, d), den |-> d \div GCD(n, d)]

Sqrt(q) == [sqrt_of |-> q]

Ok(v) == [exc |-> "", val |-> v]

Raise(e) == [exc |-> e, val |-> <<>>]

\* dict.get(key, default)
Get(d, k, default) == IF k \in DOMAIN d THEN d[k] ELSE default

\* a + b on Python values: int + int, anything with None is a TypeError
Add(a, b) == IF IsInt(a) /\ IsInt(b) THEN Ok(PyInt(a.int + b.int)) ELSE Raise("TypeError")

\* unary minus, as used in the sort keys
Neg(a) == IF IsInt(a) THEN Ok(-(a.int)) ELSE Raise("TypeError")

AllInt(values) == \A i \in 1..Len(values) : IsInt(values[i])

RECURSIVE SumInts(_)
SumInts(values) == IF values = <<>> THEN 0 ELSE values[1].int + SumInts(Tail(values))

RECURSIVE SumSquares(_)
SumSquares(values) == IF values = <<>> THEN 0 ELSE values[1].int * values[1].int + SumSquares(Tail(values))

\* statistics.mean: exact mean, an int when integral and a float otherwise
mean(values) ==
    IF values = <<>> THEN Raise("StatisticsError")
    ELSE IF ~AllInt(values) THEN Raise("TypeError")
    ELSE LET q == Frac(SumInts(values), Len(values))
         IN  Ok(IF q.den = 1 THEN PyInt(q.num) ELSE q)

\* statistics.stdev: sqrt of the sample variance
\* sum((x-m)^2)/(n-1) = (n*sum(x^2) - sum(x)^2) / (n*(n-1))
stdev(values) ==
    IF Len(values) < 2 THEN Raise("StatisticsError")
    ELSE IF ~AllInt(values) THEN Raise("TypeError")
    ELSE LET n == Len(values)
             s == SumInts(values)
         IN  Ok(Sqrt(Frac(n * SumSquares(values) - s * s, n * (n - 1))))

\* builtin min / max over a non-empty list of ints
min(values) == CHOOSE v \in {values[i] : i \in 1..Len(values)} :
                   \A j \in 1..Len(values) : v.int <= values[j].int

max(values) == CHOOSE v \in {values[i] : i \in 1..Len(values)} :
                   \A j \in 1..Len(values) : v.int >= values[j].int

---------------------------------------------------------------------------
(* list.sort(key=...): stable, ascending in the key tuples *)

RECURSIVE LessKey(_, _)
LessKey(a, b) ==
    IF a = <<>> \/ b = <<>> THEN FALSE
    ELSE IF a[1] # b[1] THEN a[1] < b[1]
    ELSE LessKey(Tail(a), Tail(b))

\* position at which an item with key k goes into the sorted prefix: after
\* every item whose key is not greater than k
RECURSIVE InsertPos(_, _, _)
InsertPos(keys, k, i) ==
    IF i > Len(keys) THEN i
    ELSE IF LessKey(k, keys[i]) THEN i
    ELSE InsertPos(keys, k, i + 1)

InsertAt(s, i, x) == SubSeq(s, 1, i - 1) \o <<x>> \o SubSeq(s, i, Len(s))

RECURSIVE SortLoop(_, _, _, _, _)
SortLoop(items, keys, i, outItems, outKeys) ==
    IF i > Len(items) THEN outItems
    ELSE LET p == InsertPos(outKeys, keys[i], 1)
         IN  SortLoop(items, keys, i + 1,
                      InsertAt(outItems, p, items[i]), InsertAt(outKeys, p, keys[i]))

sort(items, keys) == SortLoop(items, keys, 1, <<>>, <<>>)

---------------------------------------------------------------------------
(* guild_raid: the encounter leaderboard *)

\* rarity_order.get(rarity, 99)
rarity_order == [Common |-> 0, Uncommon |-> 1, Rare |-> 2, Epic |-> 3, Legendary |-> 4, Mythic |-> 5]

UnrankedRarity == 99

RarityRank(rarity) ==
    IF IsStr(rarity) /\ rarity.str \in DOMAIN rarity_order THEN rarity_order[rarity.str]
    ELSE UnrankedRarity

\* the value of damage_values for an entry: Bomb damage is left out
IsBomb(damage_type) == damage_type = PyStr("Bomb")

\* index of key in the dict boss_data (kept in insertion order), 0 if absent
KeyIndex(boss_data, key) ==
    IF \E i \in 1..Len(boss_data) : boss_data[i].key = key
    THEN CHOOSE i \in 1..Len(boss_data) : boss_data[i].key = key
    ELSE 0

\* AggregateEntry with the damage added to the total only where it is added
\* to damage_values
AggregateEntry_BombUntotalled(boss_data, entry) ==
    LET boss_type   == Get(entry, "type", PyStr("Unknown"))
        rarity      == Get(entry, "rarity", PyStr("Unknown"))
        boss_set    == Get(entry, "set", PyInt(0))
        tier        == Get(entry, "tier", PyInt(0))
        damage      == Get(entry, "damageDealt", PyInt(0))
        damage_type == Get(entry, "damageType", PyStr(""))
        key         == <<boss_type, rarity, boss_set>>
        i           == KeyIndex(boss_data, key)
    IN  IF i # 0
        THEN LET total == IF IsBomb(damage_type) THEN Ok(boss_data[i].damage)
                          ELSE Add(boss_data[i].damage, damage)
             IN  IF total.exc # "" THEN Raise(total.exc)
                 ELSE Ok([boss_data EXCEPT ![i] =
                            [@ EXCEPT !.damage = total.val,
                                      !.tiers = @ \cup {tier},
                                      !.damage_values =
                                          IF ~IsBomb(damage_type) THEN Append(@, damage) ELSE @]])
        ELSE Ok(Append(boss_data,
                       [key           |-> key,
                        name          |-> boss_type,
                        damage        |-> damage,
                        rarity        |-> rarity,
                        set           |-> boss_set,
                        tiers         |-> {tier},
                        damage_values |-> IF ~IsBomb(damage_type) THEN <<damage>> ELSE <<>>]))

\* AggregateEntry with the first entry of a group always in damage_values
AggregateEntry_FirstBombKept(boss_data, entry) ==
    LET boss_type   == Get(entry, "type", PyStr("Unknown"))
        rarity      == Get(entry, "rarity", PyStr("Unknown"))
        boss_set    == Get(entry, "set", PyInt(0))
        tier        == Get(entry, "tier", PyInt(0))
        damage      == Get(entry, "damageDealt", PyInt(0))
        damage_type == Get(entry, "damageType", PyStr(""))
        key         == <<boss_type, rarity, boss_set>>
        i           == KeyIndex(boss_data, key)
    IN  IF i # 0
        THEN LET total == Add(boss_data[i].damage, damage)
             IN  IF total.exc # "" THEN Raise(total.exc)
                 ELSE Ok([boss_data EXCEPT ![i] =
                            [@ EXCEPT !.damage = total.val,
                                      !.tiers = @ \cup {tier},
                                      !.damage_values =
                                          IF ~IsBomb(damage_type) THEN Append(@, damage) ELSE @]])
        ELSE Ok(Append(boss_data,
                       [key           |-> key,
                        name          |-> boss_type,
                        damage        |-> damage,
                        rarity        |-> rarity,
                        set           |-> boss_set,
                        tiers         |-> {tier},
                        damage_values |-> <<damage>>]))

\* one iteration of the loop over entries
AggregateEntry(boss_data, entry) ==
    LET boss_type   == Get(entry, "type", PyStr("Unknown"))
        rarity      == Get(entry, "rarity", PyStr("Unknown"))
        boss_set    == Get(entry, "set", PyInt(0))
        tier        == Get(entry, "tier", PyInt(0))
        damage      == Get(entry, "damageDealt", PyInt(0))
        damage_type == Get(entry, "damageType", PyStr(""))
        key         == <<boss_type, rarity, boss_set>>
        i           == KeyIndex(boss_data, key)
    IN  IF i # 0
        THEN LET total == Add(boss_data[i].damage, damage)
             IN  IF total.exc # "" THEN Raise(total.exc)
                 ELSE Ok([boss_data EXCEPT ![i] =
                            [@ EXCEPT !.damage = total.val,
                                      !.tiers = @ \cup {tier},
                                      !.damage_values =
                                          IF ~IsBomb(damage_type) THEN Append(@, damage) ELSE @]])
        ELSE Ok(Append(boss_data,
                       [key           |-> key,
                        name          |-> boss_type,
                        damage        |-> damage,
                        rarity        |-> rarity,
                        set           |-> boss_set,
                        tiers         |-> {tier},
                        damage_values |-> IF ~IsBomb(damage_type) THEN <<damage>> ELSE <<>>]))

RECURSIVE AggregateEntries(_, _, _)
AggregateEntries(boss_data, es, i) ==
    IF i > Len(es) THEN Ok(boss_data)
    ELSE LET r == AggregateEntry(boss_data, es[i])
         IN  IF r.exc # "" THEN r ELSE AggregateEntries(r.val, es, i + 1)

\* NeedsStdev with the guard of the mean
NeedsStdev_One(values) == Len(values) >= 1

\* the guard of the call of statistics.stdev
NeedsStdev(values) == Len(values) >= 2

\* tier count, average, stddev, min and max of one boss
BossStats(b) ==
    LET values == b.damage_values
        base   == [name |-> b.name, damage |-> b.damage, rarity |-> b.rarity,
                   set |-> b.set, tier_count |-> Cardinality(b.tiers)]
    IN  IF Len(values) >= 1
        THEN LET avg == mean(values)
                 sd  == IF NeedsStdev(values) THEN stdev(values) ELSE Ok(PyInt(0))
             IN  IF avg.exc # "" THEN Raise(avg.exc)
                 ELSE IF sd.exc # "" THEN Raise(sd.exc)
                 ELSE Ok(base @@ [avg_damage |-> avg.val, stddev |-> sd.val,
                                  min_damage |-> min(values), max_damage |-> max(values)])
        ELSE Ok(base @@ [avg_damage |-> PyInt(0), stddev |-> PyInt(0),
                         min_damage |-> PyInt(0), max_damage |-> PyInt(0)])

RECURSIVE AllBossStats(_, _, _)
AllBossStats(boss_data, i, out) ==
    IF i > Len(boss_data) THEN Ok(out)
    ELSE LET r == BossStats(boss_data[i])
         IN  IF r.exc # "" THEN r ELSE AllBossStats(boss_data, i + 1, Append(out, r.val))

\* the argument lists statistics.stdev is called with, up to the first
\* exception
RECURSIVE StdevCalls(_, _)
StdevCalls(boss_data, i) ==
    IF i > Len(boss_data) THEN {}
    ELSE LET values == boss_data[i].damage_values
             here   == IF Len(values) >= 1 /\ mean(values).exc = "" /\ NeedsStdev(values)
                       THEN {values} ELSE {}
         IN  IF BossStats(boss_data[i]).exc # "" THEN here
             ELSE here \cup StdevCalls(boss_data, i + 1)

\* BossSortKey with the set before the rarity
BossSortKey_SetFirst(x) ==
    LET s == Neg(x.set)
        d == Neg(x.damage)
    IN  IF s.exc # "" THEN Raise(s.exc)
        ELSE IF d.exc # "" THEN Raise(d.exc)
        ELSE Ok(<<s.val, -RarityRank(x.rarity), d.val>>)

\* key=lambda x: (-rarity_order.get(x['rarity'], 99), -x['set'], -x['damage'])
BossSortKey(x) ==
    LET s == Neg(x.set)
        d == Neg(x.damage)
    IN  IF s.exc # "" THEN Raise(s.exc)
        ELSE IF d.exc # "" THEN Raise(d.exc)
        ELSE Ok(<<-RarityRank(x.rarity), s.val, d.val>>)

SortBosses(list) ==
    IF \E i \in 1..Len(list) : BossSortKey(list[i]).exc # ""
    THEN Raise("TypeError")
    ELSE Ok(sort(list, [i \in 1..Len(list) |-> BossSortKey(list[i]).val]))

\* the body of guild_raid from the cached data to the list handed to the
\* template
guild_raid(es) ==
    LET boss_data == AggregateEntries(<<>>, es, 1)
    IN  IF boss_data.exc # "" THEN boss_data
        ELSE LET stats == AllBossStats(boss_data.val, 1, <<>>)
             IN  IF stats.exc # "" THEN stats ELSE SortBosses(stats.val)

---------------------------------------------------------------------------
(* guild_raid_boss: the per-player breakdown of one encounter *)

\* the entries of this specific boss; e.get(k) is None for an absent key
FilterBoss(es, boss_type, rarity, boss_set) ==
    SelectSeq(es, LAMBDA e : /\ Get(e, "type", None) = boss_type
                             /\ Get(e, "rarity", None) = rarity
                             /\ Get(e, "set", None) = boss_set)

UserIndex(player_data, user_id) ==
    IF \E i \in 1..Len(player_data) : player_data[i].user_id = user_id
    THEN CHOOSE i \in 1..Len(player_data) : player_data[i].user_id = user_id
    ELSE 0

\* AggregatePlayer with the damage added to the total only where it is
\* added to damage_values
AggregatePlayer_BombUntotalled(player_data, entry) ==
    LET user_id     == Get(entry, "userId", PyStr("Unknown"))
        damage      == Get(entry, "damageDealt", PyInt(0))
        damage_type == Get(entry, "damageType", PyStr(""))
        i0          == UserIndex(player_data, user_id)
        pd          == IF i0 # 0 THEN player_data
                       ELSE Append(player_data,
                                   [user_id |-> user_id, total_damage |-> PyInt(0),
                                    damage_values |-> <<>>, attack_count |-> 0])
        i           == IF i0 # 0 THEN i0 ELSE Len(pd)
        total       == IF IsBomb(damage_type) THEN Ok(pd[i].total_damage)
                       ELSE Add(pd[i].total_damage, damage)
    IN  IF total.exc # "" THEN Raise(total.exc)
        ELSE Ok([pd EXCEPT ![i] =
                   [@ EXCEPT !.total_damage = total.val,
                             !.damage_values =
                                 IF ~IsBomb(damage_type) THEN Append(@, damage) ELSE @,
                             !.attack_count =
                                 IF ~IsBomb(damage_type) THEN @ + 1 ELSE @]])

\* AggregatePlayer with attack_count counting every entry
AggregatePlayer_CountsBombs(player_data, entry) ==
    LET user_id     == Get(entry, "userId", PyStr("Unknown"))
        damage      == Get(entry, "damageDealt", PyInt(0))
        damage_type == Get(entry, "damageType", PyStr(""))
        i0          == UserIndex(player_data, user_id)
        pd          == IF i0 # 0 THEN player_data
                       ELSE Append(player_data,
                                   [user_id |-> user_id, total_damage |-> PyInt(0),
                                    damage_values |-> <<>>, attack_count |-> 0])
        i           == IF i0 # 0 THEN i0 ELSE Len(pd)
        total       == Add(pd[i].total_damage, damage)
    IN  IF total.exc # "" THEN Raise(total.exc)
        ELSE Ok([pd EXCEPT ![i] =
                   [@ EXCEPT !.total_damage = total.val,
                             !.damage_values =
                                 IF ~IsBomb(damage_type) THEN Append(@, damage) ELSE @,
                             !.attack_count = @ + 1]])

\* one iteration of the loop over boss_entries
AggregatePlayer(player_data, entry) ==
    LET user_id     == Get(entry, "userId", PyStr("Unknown"))
        damage      == Get(entry, "damageDealt", PyInt(0))
        damage_type == Get(entry, "damageType", PyStr(""))
        i0          == UserIndex(player_data, user_id)
        pd          == IF i0 # 0 THEN player_data
                       ELSE Append(player_data,
                                   [user_id |-> user_id, total_damage |-> PyInt(0),
                                    damage_values |-> <<>>, attack_count |-> 0])
        i           == IF i0 # 0 THEN i0 ELSE Len(pd)
        total       == Add(pd[i].total_damage, damage)
    IN  IF total.exc # "" THEN Raise(total.exc)
        ELSE Ok([pd EXCEPT ![i] =
                   [@ EXCEPT !.total_damage = total.val,
                             !.damage_values =
                                 IF ~IsBomb(damage_type) THEN Append(@, damage) ELSE @,
                             !.attack_count =
                                 IF ~IsBomb(damage_type) THEN @ + 1 ELSE @]])

RECURSIVE AggregatePlayers(_, _, _)
AggregatePlayers(player_data, es, i) ==
    IF i > Len(es) THEN Ok(player_data)
    ELSE LET r == AggregatePlayer(player_data, es[i])
         IN  IF r.exc # "" THEN r ELSE AggregatePlayers(r.val, es, i + 1)

\* usernames.get(user_id, '')
UsernameOf(names, user_id) ==
    IF IsStr(user_id) /\ user_id.str \in DOMAIN names THEN names[user_id.str] ELSE ""

\* stats of one player
PlayerStats(pdata, names) ==
    LET values == pdata.damage_values
        avg    == IF values # <<>> THEN mean(values) ELSE Ok(PyInt(0))
    IN  IF avg.exc # "" THEN Raise(avg.exc)
        ELSE Ok([user_id      |-> pdata.user_id,
                 username     |-> UsernameOf(names, pdata.user_id),
                 total_damage |-> pdata.total_damage,
                 attack_count |-> pdata.attack_count,
                 avg_damage   |-> avg.val,
                 min_damage   |-> IF values # <<>> THEN min(values) ELSE PyInt(0),
                 max_damage   |-> IF values # <<>> THEN max(values) ELSE PyInt(0)])

RECURSIVE AllPlayerStats(_, _, _, _)
AllPlayerStats(player_data, names, i, out) ==
    IF i > Len(player_data) THEN Ok(out)
    ELSE LET r == PlayerStats(player_data[i], names)
         IN  IF r.exc # "" THEN r
             ELSE AllPlayerStats(player_data, names, i + 1, Append(out, r.val))

\* key=lambda x: -x['total_damage']
PlayerSortKey(x) ==
    LET d == Neg(x.total_damage)
    IN  IF d.exc # "" THEN Raise(d.exc) ELSE Ok(<<d.val>>)

\* SortPlayers sorting ascending and reversing the list
SortPlayers_AscendingReversed(list) ==
    IF \E i \in 1..Len(list) : PlayerSortKey(list[i]).exc # ""
    THEN Raise("TypeError")
    ELSE LET up == sort(list, [i \in 1..Len(list) |-> <<-(PlayerSortKey(list[i]).val[1])>>])
         IN  Ok([i \in 1..Len(up) |-> up[Len(up) + 1 - i]])

SortPlayers(list) ==
    IF \E i \in 1..Len(list) : PlayerSortKey(list[i]).exc # ""
    THEN Raise("TypeError")
    ELSE Ok(sort(list, [i \in 1..Len(list) |-> PlayerSortKey(list[i]).val]))

\* the body of guild_raid_boss from the cached data to the list handed to
\* the template
guild_raid_boss(es, names, boss_type, rarity, boss_set) ==
    LET boss_entries == FilterBoss(es, boss_type, rarity, boss_set)
        player_data  == AggregatePlayers(<<>>, boss_entries, 1)
    IN  IF player_data.exc # "" THEN player_data
        ELSE LET stats == AllPlayerStats(player_data.val, names, 1, <<>>)
             IN  IF stats.exc # "" THEN stats ELSE SortPlayers(stats.val)

---------------------------------------------------------------------------
(* The attacks the API reports *)

Entry(type, rarity, set, tier, userId, damageDealt, damageType) ==
    [type |-> PyStr(type), rarity |-> PyStr(rarity), set |-> PyInt(set),
     tier |-> PyInt(tier), userId |-> PyStr(userId),
     damageDealt |-> PyInt(damageDealt), damageType |-> PyStr(damageType)]

\* the entry without key k
Without(e, k) == [x \in DOMAIN e \ {k} |-> e[x]]

\* the entry with a JSON null under key k
WithNull(e, k) == [e EXCEPT ![k] = None]

BaseEntry == Entry("Boss", "Epic", 1, 1, "u1", 1, "Melee")

\* encounters of several rarities and sets attacked by a player without a
\* saved username: two bosses of the same rarity and set, one encounter
\* bombed only
LeaderboardEntries ==
    {Entry("Boss", "Epic", s, 1, "u3", 1, "Melee") : s \in {1, 2}}
    \cup {Entry("Boss2", "Epic", 1, 1, "u3", MaxDamage, "Melee"),
          Entry("Boss", "Rare", 2, 1, "u3", MaxDamage, "Bomb")}

\* an attack and bombs of two players on one encounter, and an attack on
\* the same boss of another set
EncounterEntries ==
    {Entry("Boss", "Epic", 1, 1, "u1", 1, "Melee"),
     Entry("Boss", "Epic", 2, 1, "u1", MaxDamage, "Melee")}
    \cup {Entry("Boss", "Epic", 1, 1, u, MaxDamage, "Bomb") : u \in {"u1", "u2"}}

\* attacks on one encounter whose damage types are "Bomb", other spellings
\* of it and another type
DamageTypeEntries ==
    {Entry("Boss", "Epic", 1, 1, "u1", 1, "Melee"),
     Entry("Boss", "Epic", 1, 1, "u2", MaxDamage, "bomb"),
     Entry("Boss", "Epic", 1, 1, "u2", 1, "BOMB"),
     Entry("Boss", "Epic", 1, 1, "u1", MaxDamage, "Bomb")}

\* encounters of every rarity: three Epic ones that differ in set or in
\* damage, a Rare one of a higher set and more damage than an Epic one
RankEntries ==
    {Entry("Boss", r, 1, 1, "u3", 1, "Melee") :
         r \in {"Common", "Uncommon", "Epic", "Legendary", "Mythic"}}
    \cup {Entry("Boss", "Epic", 2, 1, "u3", 1, "Melee"),
          Entry("Boss2", "Epic", 2, 1, "u3", MaxDamage, "Melee"),
          Entry("Boss", "Rare", 2, 1, "u3", MaxDamage, "Melee")}

\* entries with an absent or null field, another tier, another spelling of
\* the damage type
OddEntries ==
    {BaseEntry, Entry("Boss", "Epic", 1, 2, "u2", MaxDamage, "bomb"),
     Entry("Boss", "Epic", 1, 1, "u1", MaxDamage, "Bomb")}
    \cup {Without(BaseEntry, k) : k \in DOMAIN BaseEntry}
    \cup {WithNull(BaseEntry, k) : k \in {"set", "damageDealt", "tier"}}

\* a raid: the pool its attacks are drawn from, the number of attacks the
\* model follows it for, and whether an attack of the pool can be logged
\* more than once
LeaderboardRaid == [pool |-> LeaderboardEntries, max |-> MaxEntries, repeat |-> TRUE]

EncounterRaid == [pool |-> EncounterEntries, max |-> MaxEntries, repeat |-> TRUE]

DamageTypeRaid == [pool |-> DamageTypeEntries, max |-> MaxEntries, repeat |-> TRUE]

OddRaid == [pool |-> OddEntries, max |-> MaxOddEntries, repeat |-> TRUE]

\* every encounter of the raid is attacked once
RankRaid == [pool |-> RankEntries, max |-> MaxRankEntries, repeat |-> FALSE]

FirstSaveRaid == [pool |-> {BaseEntry}, max |-> 1, repeat |-> TRUE]

Fits(es, raids) ==
    \E r \in raids :
        /\ Len(es) <= r.max
        /\ \A i \in 1..Len(es) : es[i] \in r.pool
        /\ r.repeat \/ \A i, j \in 1..Len(es) : i # j => es[i] # es[j]

\* the dict {'entries': es}
Data(es) == [entries |-> es]

\* the dict {}
EmptyData == [empty |-> TRUE]

\* bool(data)
Truthy(data) == "entries" \in DOMAIN data

\* data.get('entries', [])
Entries(data) == IF "entries" \in DOMAIN data THEN data.entries ELSE <<>>

\* response.json() of GET /guildRaid with status 200, es being the entries
\* of the answer before: the raid as it was or with one more attack logged,
\* or, as long as no attack is logged, no raid data
Answers(es, raids) ==
    {Data(es)}
    \cup (IF es = <<>> THEN {EmptyData} ELSE {})
    \cup {Data(l) : l \in {l \in {Append(es, e) : e \in UNION {r.pool : r \in raids}} :
                              Fits(l, raids)}}

\* the encounter a request names when the cache shows no leaderboard
DefaultLink == <<PyStr("Boss"), PyStr("Epic"), PyInt(1)>>

\* the encounters a leaderboard link can name: <boss_type>/<rarity>/<int:boss_set>
Links(es) ==
    LET keys == {<<Get(es[i], "type", PyStr("Unknown")),
                   Get(es[i], "rarity", PyStr("Unknown")),
                   Get(es[i], "set", PyInt(0))>> : i \in 1..Len(es)}
        typed == {k \in keys : IsStr(k[1]) /\ IsStr(k[2]) /\ IsInt(k[3])}
    IN  IF typed = {} THEN {DefaultLink} ELSE typed

\* the users who save a name, and the name each of them saves
Users == {"u1", "u2"}

UsernameFor(user_id) == IF user_id = "u1" THEN "Alice" ELSE "Bob"

---------------------------------------------------------------------------
(* The files of the data directory.  A file is                             *)
(*   [st |-> "missing"]     not created yet                                *)
(*   [st |-> "ok"]          one JSON document, content, of len characters  *)
(*   [st |-> "unreadable"]  len characters json.load does not accept: the  *)
(*                          empty file open(path, 'w') leaves, or a        *)
(*                          document followed by the rest of a longer one  *)

Missing == [st |-> "missing", content |-> <<>>, len |-> 0]

\* open(path, 'w')
Truncated == [st |-> "unreadable", content |-> <<>>, len |-> 0]

\* the characters written on leaving "with open(path, 'w') as f", from the
\* start of a file that holds what was written since it was opened
Written(file, content, n) ==
    IF n >= file.len THEN [st |-> "ok", content |-> content, len |-> n]
    ELSE [st |-> "unreadable", content |-> <<>>, len |-> file.len]

\* json.load(f)
json_load(file) ==
    IF file.st = "ok" THEN Ok(file.content) ELSE Raise("JSONDecodeError")

\* os.path.exists(filepath)
exists(file) == file.st # "missing"

\* data of load_cached_data(filepath) when the file exists
load_cached_data(file) == json_load(file)

load_usernames(file) ==
    IF file.st = "missing" THEN Ok(<<>>) ELSE json_load(file)

\* len(s) of the strings of the model
StrLen(s) ==
    CASE s \in {"u1", "u2", "u3"} -> 2
      [] s \in {"set", "Bob"} -> 3
      [] s \in {"type", "tier", "Boss", "Epic", "Rare", "Bomb", "bomb", "BOMB"} -> 4
      [] s \in {"Boss2", "Melee", "Alice"} -> 5
      [] s \in {"rarity", "userId", "Common", "Mythic"} -> 6
      [] s = "Uncommon" -> 8
      [] s = "Legendary" -> 9
      [] s = "damageType" -> 10
      [] s = "damageDealt" -> 11

\* len(json.dumps(v)) of a str, None, or an int of one digit
ValueLen(v) == IF IsStr(v) THEN StrLen(v.str) + 2 ELSE IF v = None THEN 4 ELSE 1

RECURSIVE SumOver(_, _)
SumOver(S, f) ==
    IF S = {} THEN 0 ELSE LET x == CHOOSE x \in S : TRUE IN f[x] + SumOver(S \ {x}, f)

\* characters of one entry in json.dump(cache, f, indent=2)
EntryLen(e) ==
    IF DOMAIN e = {} THEN 2
    ELSE 10 + 2 * (Cardinality(DOMAIN e) - 1)
         + SumOver(DOMAIN e, [k \in DOMAIN e |-> 12 + StrLen(k) + ValueLen(e[k])])

\* len(datetime.now().isoformat()): without the microseconds when they
\* are 0
IsoformatLens == {19, 26}

\* characters save_cached_data writes for data under an updated_at of
\* stamp characters
CacheLen(data, stamp) ==
    IF ~Truthy(data) THEN stamp + 36
    ELSE LET es == data.entries
         IN  stamp + 55 + (IF es = <<>> THEN 2
                   ELSE 8 + 2 * (Len(es) - 1)
                        + SumOver(1..Len(es), [i \in 1..Len(es) |-> 6 + EntryLen(es[i])]))

\* characters save_username writes for the mapping names
UsernamesLen(names) ==
    IF DOMAIN names = {} THEN 2
    ELSE 4 + 2 * (Cardinality(DOMAIN names) - 1)
         + SumOver(DOMAIN names,
                   [u \in DOMAIN names |-> 8 + StrLen(u) + StrLen(names[u])])

---------------------------------------------------------------------------
(* State machine: the server started with an API key in its environment,  *)
(* requests served by threads.  entries, bosses, stdev_calls, boss and     *)
(* players describe the raid page the last step rendered, if it did.       *)

NoResponse == [exc |-> "no response", val |-> <<>>]

NoBoss == [name |-> None, rarity |-> None, set |-> None]

IdlePage == [pc |-> "idle", route |-> "", boss |-> NoBoss, data |-> EmptyData]

IdleUpdate == [pc |-> "idle", data |-> EmptyData]

IdleSave == [pc |-> "idle", usernames |-> <<>>]

Init ==
    /\ data_dir = FALSE
    /\ raid = <<>>
    /\ cache = Missing
    /\ usernames = Missing
    /\ page = IdlePage
    /\ updating = IdleUpdate
    /\ saving = [u \in Users |-> IdleSave]
    /\ entries = <<>>
    /\ bosses = NoResponse
    /\ stdev_calls = {}
    /\ boss = NoBoss
    /\ players = NoResponse

Respond(es, leaderboard, calls, encounter, breakdown) ==
    /\ entries' = es
    /\ bosses' = leaderboard
    /\ stdev_calls' = calls
    /\ boss' = encounter
    /\ players' = breakdown

\* a step that renders no raid page
NoPage == Respond(<<>>, NoResponse, {}, NoBoss, NoResponse)

\* guild_raid from the loop over the entries to render_template
RenderGuildRaid(data) ==
    LET es        == Entries(data)
        boss_data == AggregateEntries(<<>>, es, 1)
    IN  Respond(es, guild_raid(es),
                IF boss_data.exc # "" THEN {} ELSE StdevCalls(boss_data.val, 1),
                NoBoss, NoResponse)

\* guild_raid_boss from the filter to the end of the loop over boss_entries:
\* an exception ends the request, else the thread goes on to load_usernames
AggregateBoss(data, encounter) ==
    LET es          == Entries(data)
        player_data == AggregatePlayers(<<>>, FilterBoss(es, encounter.name, encounter.rarity,
                                                         encounter.set), 1)
    IN  IF player_data.exc # ""
        THEN /\ Respond(es, NoResponse, {}, encounter, player_data)
             /\ page' = IdlePage
        ELSE /\ page' = [pc |-> "aggregated", route |-> "guild_raid_boss",
                         boss |-> encounter, data |-> data]
             /\ NoPage

\* fetch_guild_raid_data of the page thread after load_cached_data gave no
\* data: the thread calls requests.get and waits for the API
Request(route, encounter) ==
    /\ page' = [pc |-> "requested", route |-> route, boss |-> encounter, data |-> EmptyData]
    /\ NoPage
    /\ UNCHANGED <<data_dir, raid, cache, usernames, updating, saving>>

\* GET /guild-raid up to its response, or to requests.get when
\* load_cached_data gives no data
GuildRaid ==
    /\ page.pc = "idle"
    /\ LET data == load_cached_data(cache)
       IN  \/ /\ exists(cache) /\ data.exc # ""
              /\ Respond(<<>>, Raise(data.exc), {}, NoBoss, NoResponse)
              /\ UNCHANGED <<data_dir, raid, cache, usernames, page, updating, saving>>
           \/ /\ exists(cache) /\ data.exc = "" /\ Truthy(data.val)
              /\ RenderGuildRaid(data.val)
              /\ UNCHANGED <<data_dir, raid, cache, usernames, page, updating, saving>>
           \/ /\ ~exists(cache) \/ (data.exc = "" /\ ~Truthy(data.val))
              /\ Request("guild_raid", NoBoss)

\* GET /guild-raid/boss/<boss_type>/<rarity>/<int:boss_set> up to the end
\* of the loop over boss_entries, or to requests.get when load_cached_data
\* gives no data
GuildRaidBoss(boss_type, rarity, boss_set) ==
    /\ page.pc = "idle"
    /\ LET data      == load_cached_data(cache)
           encounter == [name |-> boss_type, rarity |-> rarity, set |-> boss_set]
       IN  \/ /\ exists(cache) /\ data.exc # ""
              /\ Respond(<<>>, NoResponse, {}, encounter, Raise(data.exc))
              /\ UNCHANGED <<data_dir, raid, cache, usernames, page, updating, saving>>
           \/ /\ exists(cache) /\ data.exc = "" /\ Truthy(data.val)
              /\ AggregateBoss(data.val, encounter)
              /\ UNCHANGED <<data_dir, raid, cache, usernames, updating, saving>>
           \/ /\ ~exists(cache) \/ (data.exc = "" /\ ~Truthy(data.val))
              /\ Request("guild_raid_boss", encounter)

\* requests.get of the page thread returns: status 200 and response.json(),
\* or another status or a RequestException, on which guild_raid renders its
\* error page and guild_raid_boss redirects
PageAnswer(raids) ==
    /\ page.pc = "requested"
    /\ \/ \E answer \in Answers(raid, raids) :
              /\ raid' = IF Truthy(answer) THEN answer.entries ELSE raid
              /\ page' = [page EXCEPT !.pc = "answered", !.data = answer]
              /\ NoPage
       \/ /\ IF page.route = "guild_raid"
             THEN Respond(<<>>, Ok(<<>>), {}, NoBoss, NoResponse)
             ELSE NoPage
          /\ page' = IdlePage
          /\ UNCHANGED raid
    /\ UNCHANGED <<data_dir, cache, usernames, updating, saving>>

\* save_cached_data of the page thread: ensure_data_dir finds no data
\* directory and calls os.makedirs
PageEnsure ==
    /\ page.pc = "answered"
    /\ ~data_dir
    /\ page' = [page EXCEPT !.pc = "creating"]
    /\ NoPage
    /\ UNCHANGED <<data_dir, raid, cache, usernames, updating, saving>>

\* os.makedirs of the page thread: it creates the data directory, or raises
\* FileExistsError when the directory was created since, which ends the
\* request
PageMakedirs ==
    /\ page.pc = "creating"
    /\ IF data_dir
       THEN page' = IdlePage /\ UNCHANGED data_dir
       ELSE page' = [page EXCEPT !.pc = "answered"] /\ data_dir' = TRUE
    /\ NoPage
    /\ UNCHANGED <<raid, cache, usernames, updating, saving>>

\* save_cached_data of the page thread with the data directory in place:
\* open(filepath, 'w')
PageOpen ==
    /\ page.pc = "answered"
    /\ data_dir
    /\ cache' = Truncated
    /\ page' = [page EXCEPT !.pc = "opened"]
    /\ NoPage
    /\ UNCHANGED <<data_dir, raid, usernames, updating, saving>>

\* save_cached_data of the page thread leaves its with block
PageDump ==
    /\ page.pc = "opened"
    /\ \E stamp \in IsoformatLens :
           cache' = Written(cache, page.data, CacheLen(page.data, stamp))
    /\ page' = [page EXCEPT !.pc = "saved"]
    /\ NoPage
    /\ UNCHANGED <<data_dir, raid, usernames, updating, saving>>

\* the load_cached_data that follows save_cached_data, and the handler on
\* the data the API answered
PageLoad ==
    /\ page.pc = "saved"
    /\ LET loaded == load_cached_data(cache)
       IN  IF loaded.exc # ""
           THEN /\ IF page.route = "guild_raid"
                   THEN Respond(<<>>, Raise(loaded.exc), {}, NoBoss, NoResponse)
                   ELSE Respond(<<>>, NoResponse, {}, page.boss, Raise(loaded.exc))
                /\ page' = IdlePage
           ELSE IF page.route = "guild_raid"
           THEN /\ RenderGuildRaid(page.data)
                /\ page' = IdlePage
           ELSE AggregateBoss(page.data, page.boss)
    /\ UNCHANGED <<data_dir, raid, cache, usernames, updating, saving>>

\* guild_raid_boss from load_usernames to render_template; the data
\* directory exists since the raid data was cached
BossRespond ==
    /\ page.pc = "aggregated"
    /\ data_dir
    /\ LET names == load_usernames(usernames)
       IN  Respond(Entries(page.data), NoResponse, {}, page.boss,
                   IF names.exc # "" THEN Raise(names.exc)
                   ELSE guild_raid_boss(Entries(page.data), names.val, page.boss.name,
                                        page.boss.rarity, page.boss.set))
    /\ page' = IdlePage
    /\ UNCHANGED <<data_dir, raid, cache, usernames, updating, saving>>

\* GET /update up to requests.get of fetch_guild_raid_data(use_cache=False),
\* or to the exception that ends it before; save_cached_data of the player
\* and guild data creates the data directory when the API answered 200
Update ==
    /\ updating.pc = "idle"
    /\ \/ updating' = [pc |-> "requested", data |-> EmptyData]
       \/ UNCHANGED updating
    /\ \E created \in BOOLEAN : data_dir' = (data_dir \/ created)
    /\ NoPage
    /\ UNCHANGED <<raid, cache, usernames, page, saving>>

\* GET /player up to requests.get of fetch_guild_raid_data when
\* load_cached_data gives no data, or to its end when it has cached raid
\* data, when json.load raises or when fetch_player_data fails; the request
\* gets past fetch_player_data with the player data cached, that is with
\* the data directory in place
Player ==
    /\ updating.pc = "idle"
    /\ LET data == load_cached_data(cache)
       IN  \/ /\ ~exists(cache) \/ (data.exc = "" /\ ~Truthy(data.val))
              /\ updating' = [pc |-> "requested", data |-> EmptyData]
              /\ data_dir' = TRUE
           \/ /\ UNCHANGED updating
              /\ \E created \in BOOLEAN : data_dir' = (data_dir \/ created)
    /\ NoPage
    /\ UNCHANGED <<raid, cache, usernames, page, saving>>

\* requests.get of /update or /player returns: status 200 and
\* response.json(), or another status or a RequestException, which ends the
\* request
UpdateAnswer(raids) ==
    /\ updating.pc = "requested"
    /\ \/ \E answer \in Answers(raid, raids) :
              /\ raid' = IF Truthy(answer) THEN answer.entries ELSE raid
              /\ updating' = [pc |-> "answered", data |-> answer]
       \/ /\ updating' = IdleUpdate
          /\ UNCHANGED raid
    /\ NoPage
    /\ UNCHANGED <<data_dir, cache, usernames, page, saving>>

\* save_cached_data of /update or /player: ensure_data_dir finds no data
\* directory and calls os.makedirs
UpdateEnsure ==
    /\ updating.pc = "answered"
    /\ ~data_dir
    /\ updating' = [updating EXCEPT !.pc = "creating"]
    /\ NoPage
    /\ UNCHANGED <<data_dir, raid, cache, usernames, page, saving>>

\* os.makedirs of /update or /player: it creates the data directory, or
\* raises FileExistsError when the directory was created since, which ends
\* the request
UpdateMakedirs ==
    /\ updating.pc = "creating"
    /\ IF data_dir
       THEN updating' = IdleUpdate /\ UNCHANGED data_dir
       ELSE updating' = [updating EXCEPT !.pc = "answered"] /\ data_dir' = TRUE
    /\ NoPage
    /\ UNCHANGED <<raid, cache, usernames, page, saving>>

\* save_cached_data of /update or /player with the data directory in place:
\* open(filepath, 'w')
UpdateOpen ==
    /\ updating.pc = "answered"
    /\ data_dir
    /\ cache' = Truncated
    /\ updating' = [updating EXCEPT !.pc = "opened"]
    /\ NoPage
    /\ UNCHANGED <<data_dir, raid, usernames, page, saving>>

\* save_cached_data of /update or /player leaves its with block
UpdateDump ==
    /\ updating.pc = "opened"
    /\ \E stamp \in IsoformatLens :
           cache' = Written(cache, updating.data, CacheLen(updating.data, stamp))
    /\ updating' = [pc |-> "saved", data |-> EmptyData]
    /\ NoPage
    /\ UNCHANGED <<data_dir, raid, usernames, page, saving>>

\* the load_cached_data that follows save_cached_data in /update or
\* /player, and the end of the request, by its response or by the
\* exception of json.load
UpdateLoad ==
    /\ updating.pc = "saved"
    /\ updating' = IdleUpdate
    /\ NoPage
    /\ UNCHANGED <<data_dir, raid, cache, usernames, page, saving>>

\* save_username from the os.path.exists of USERNAMES_FILE to
\* usernames[user_id] = username; json.load may raise
SaveLoad(user_id, username) ==
    LET loaded == load_usernames(usernames)
    IN  IF loaded.exc # ""
        THEN saving' = [saving EXCEPT ![user_id] = IdleSave]
        ELSE saving' = [saving EXCEPT ![user_id] =
                 [pc |-> "loaded",
                  usernames |-> [u \in DOMAIN loaded.val \cup {user_id} |->
                                    IF u = user_id THEN username ELSE loaded.val[u]]]]

\* POST /api/username up to usernames[user_id] = username in save_username,
\* or to os.makedirs when ensure_data_dir finds no data directory
ApiSaveUsername(user_id, username) ==
    /\ \/ /\ user_id = ""
          /\ UNCHANGED saving
       \/ /\ user_id # ""
          /\ saving[user_id].pc = "idle"
          /\ IF data_dir
             THEN SaveLoad(user_id, username)
             ELSE saving' = [saving EXCEPT ![user_id].pc = "creating"]
    /\ NoPage
    /\ UNCHANGED <<data_dir, raid, cache, usernames, page, updating>>

\* os.makedirs of POST /api/username: it creates the data directory, or
\* raises FileExistsError when the directory was created since, which ends
\* the request
SaveMakedirs(user_id) ==
    /\ saving[user_id].pc = "creating"
    /\ IF data_dir
       THEN saving' = [saving EXCEPT ![user_id] = IdleSave] /\ UNCHANGED data_dir
       ELSE saving' = [saving EXCEPT ![user_id].pc = "ensured"] /\ data_dir' = TRUE
    /\ NoPage
    /\ UNCHANGED <<raid, cache, usernames, page, updating>>

\* POST /api/username after os.makedirs, up to usernames[user_id] = username
SaveEnsured(user_id, username) ==
    /\ saving[user_id].pc = "ensured"
    /\ SaveLoad(user_id, username)
    /\ NoPage
    /\ UNCHANGED <<data_dir, raid, cache, usernames, page, updating>>

\* save_username: open(USERNAMES_FILE, 'w')
SaveOpen(user_id) ==
    /\ saving[user_id].pc = "loaded"
    /\ usernames' = Truncated
    /\ saving' = [saving EXCEPT ![user_id].pc = "opened"]
    /\ NoPage
    /\ UNCHANGED <<data_dir, raid, cache, page, updating>>

\* save_username: json.dump and the end of the with block, then the JSON
\* response of api_save_username
SaveDump(user_id) ==
    /\ saving[user_id].pc = "opened"
    /\ usernames' = Written(usernames, saving[user_id].usernames,
                            UsernamesLen(saving[user_id].usernames))
    /\ saving' = [saving EXCEPT ![user_id] = IdleSave]
    /\ NoPage
    /\ UNCHANGED <<data_dir, raid, cache, page, updating>>

\* a request to /, /guild or /characters creates the data directory in
\* ensure_data_dir
OtherRequest ==
    /\ ~data_dir
    /\ data_dir' = TRUE
    /\ NoPage
    /\ UNCHANGED <<raid, cache, usernames, page, updating, saving>>

\* the requests for the raid pages, /update, /player and the other routes
\* while the API reports one of raids
Pages(raids) ==
    \/ GuildRaid
    \/ \E k \in Links(IF cache.st = "ok" THEN Entries(cache.content) ELSE <<>>) :
           GuildRaidBoss(k[1], k[2], k[3])
    \/ PageAnswer(raids)
    \/ PageEnsure
    \/ PageMakedirs
    \/ PageOpen
    \/ PageDump
    \/ PageLoad
    \/ BossRespond
    \/ Update
    \/ Player
    \/ UpdateAnswer(raids)
    \/ UpdateEnsure
    \/ UpdateMakedirs
    \/ UpdateOpen
    \/ UpdateDump
    \/ UpdateLoad
    \/ OtherRequest

\* the requests of the users in users to save their names
Saves(users) ==
    \/ \E user_id \in {""} \cup users : ApiSaveUsername(user_id, UsernameFor(user_id))
    \/ \E user_id \in users : SaveMakedirs(user_id)
    \/ \E user_id \in users : SaveEnsured(user_id, UsernameFor(user_id))
    \/ \E user_id \in users : SaveOpen(user_id)
    \/ \E user_id \in users : SaveDump(user_id)

Next ==
    Pages({LeaderboardRaid, EncounterRaid, DamageTypeRaid, OddRaid, RankRaid})
    \/ Saves(Users)

Spec == Init /\ [][Next]_vars

\* the pages during a raid of several encounters
NextLeaderboard == Pages({LeaderboardRaid})

SpecLeaderboard == Init /\ [][NextLeaderboard]_vars

\* the pages during the attacks on one encounter
NextEncounter == Pages({EncounterRaid})

SpecEncounter == Init /\ [][NextEncounter]_vars

\* the pages during attacks of several damage types on one encounter
NextDamageTypes == Pages({DamageTypeRaid})

SpecDamageTypes == Init /\ [][NextDamageTypes]_vars

\* the pages during a raid of encounters of every rarity
NextRanks == Pages({RankRaid})

SpecRanks == Init /\ [][NextRanks]_vars

\* the pages during a raid with malformed entries
NextOdd == Pages({OddRaid})

SpecOdd == Init /\ [][NextOdd]_vars

\* two users saving their names during the first attack of a raid
NextSaves == Pages({FirstSaveRaid}) \/ Saves(Users)

SpecSaves == Init /\ [][NextSaves]_vars

---------------------------------------------------------------------------
(* Properties *)

\* the fields of an entry as the aggregation reads them
EntryKey(e) == <<Get(e, "type", PyStr("Unknown")), Get(e, "rarity", PyStr("Unknown")),
                 Get(e, "set", PyInt(0))>>

EntryDamage(e) == Get(e, "damageDealt", PyInt(0))

EntryIsBomb(e) == "damageType" \in DOMAIN e /\ e.damageType = PyStr("Bomb")

DamagesOf(es) == [i \in 1..Len(es) |-> EntryDamage(es[i])]

\* the entries grouped into leaderboard row b, in input order
GroupOf(b) == SelectSeq(entries, LAMBDA e : EntryKey(e) = <<b.name, b.rarity, b.set>>)

NonBombOf(es) == SelectSeq(es, LAMBDA e : ~EntryIsBomb(e))

RowTotals(rows) == [i \in 1..Len(rows) |-> rows[i].damage]

\* v is the exact mean of the ints in values
IsMeanOf(v, values) ==
    IF IsInt(v) THEN v.int * Len(values) = SumInts(values)
    ELSE DOMAIN v = {"num", "den"} /\ v.den > 1 /\ v.num * Len(values) = SumInts(values) * v.den

IsMinOf(v, values) ==
    /\ \E i \in 1..Len(values) : values[i] = v
    /\ \A i \in 1..Len(values) : v.int <= values[i].int

IsMaxOf(v, values) ==
    /\ \E i \in 1..Len(values) : values[i] = v
    /\ \A i \in 1..Len(values) : v.int >= values[i].int

\* C1: when guild_raid returns its leaderboard, the totalDamage of the rows
\* adds up to the damageDealt of all entries, Bomb entries included, and no
\* two rows stand for the same encounter
C1_EncounterDamageConserved ==
    bosses.exc = "" =>
        /\ SumInts(RowTotals(bosses.val)) = SumInts(DamagesOf(entries))
        /\ \A i, j \in 1..Len(bosses.val) :
               i # j => <<bosses.val[i].name, bosses.val[i].rarity, bosses.val[i].set>>
                        # <<bosses.val[j].name, bosses.val[j].rarity, bosses.val[j].set>>
        /\ \A i \in 1..Len(entries) : \E j \in 1..Len(bosses.val) :
               EntryKey(entries[i]) = <<bosses.val[j].name, bosses.val[j].rarity, bosses.val[j].set>>

\* a leaderboard of several encounters over a list with a Bomb entry
C1_Witness ==
    /\ bosses.exc = ""
    /\ Len(bosses.val) >= 2
    /\ Len(entries) >= 3
    /\ \E i \in 1..Len(entries) : EntryIsBomb(entries[i]) /\ EntryDamage(entries[i]).int > 0

\* the entries the player breakdown of encounter boss is about
BossEntries ==
    SelectSeq(entries, LAMBDA e : /\ {"type", "rarity", "set"} \subseteq DOMAIN e
                                  /\ e.type = boss.name
                                  /\ e.rarity = boss.rarity
                                  /\ e.set = boss.set)

EntryUser(e) == Get(e, "userId", PyStr("Unknown"))

\* the filtered entries of the player of row p, in input order
AttacksOf(p) == SelectSeq(BossEntries, LAMBDA e : EntryUser(e) = p.user_id)

PlayerTotals(rows) == [i \in 1..Len(rows) |-> rows[i].total_damage]

\* C2: when guild_raid_boss returns its breakdown, the totalDamage of the
\* player rows adds up to the damageDealt of the entries that pass the
\* encounter filter, Bomb entries included; every filtered entry belongs to
\* the row of its userId, there is one row per userId and each row totals
\* the entries of its player
C2_PlayerDamageConserved ==
    players.exc = "" =>
        /\ SumInts(PlayerTotals(players.val)) = SumInts(DamagesOf(BossEntries))
        /\ \A i, j \in 1..Len(players.val) :
               i # j => players.val[i].user_id # players.val[j].user_id
        /\ \A i \in 1..Len(BossEntries) : \E j \in 1..Len(players.val) :
               players.val[j].user_id = EntryUser(BossEntries[i])
        /\ \A j \in 1..Len(players.val) :
               players.val[j].total_damage.int = SumInts(DamagesOf(AttacksOf(players.val[j])))

\* a breakdown with two players, one of whom dropped a bomb, of a raid with
\* an attack on another encounter too
C2_Witness ==
    /\ players.exc = ""
    /\ Len(players.val) >= 2
    /\ Len(BossEntries) >= 2
    /\ Len(entries) > Len(BossEntries)
    /\ \E i \in 1..Len(BossEntries) : EntryIsBomb(BossEntries[i])

\* what C3 says of one leaderboard row
RowStatsRight(b) ==
    LET group  == GroupOf(b)
        values == DamagesOf(NonBombOf(group))
    IN  /\ b.damage.int = SumInts(DamagesOf(group))
        /\ values # <<>> =>
               /\ IsMeanOf(b.avg_damage, values)
               /\ IsMinOf(b.min_damage, values)
               /\ IsMaxOf(b.max_damage, values)

\* C3: in every leaderboard row, totalDamage is the sum of damageDealt over
\* all entries of the group, Bomb entries included, and avg, min and max are
\* the mean, minimum and maximum over exactly the entries whose damageType
\* is not "Bomb", when there is one, wherever the Bomb entry stands
C3_BombOnlyInTotal ==
    bosses.exc = "" => \A i \in 1..Len(bosses.val) : RowStatsRight(bosses.val[i])

\* a group that starts with a Bomb entry and has other attacks of different
\* damage after it, one of them with the damage type spelled "bomb"
C3_Witness ==
    /\ bosses.exc = ""
    /\ \E i \in 1..Len(bosses.val) :
           LET group == GroupOf(bosses.val[i])
           IN  /\ Len(group) >= 3
               /\ EntryIsBomb(group[1])
               /\ Len(NonBombOf(group)) >= 2
               /\ \E k \in 1..Len(NonBombOf(group)) :
                      NonBombOf(group)[k].damageType = PyStr("bomb")
               /\ bosses.val[i].min_damage # bosses.val[i].max_damage
               /\ bosses.val[i].min_damage # EntryDamage(group[1])

\* what C4 says of one leaderboard row
RowDefaultsRight(b) ==
    LET group  == GroupOf(b)
        values == DamagesOf(NonBombOf(group))
    IN  /\ values = <<>> =>
               /\ b.avg_damage = PyInt(0)
               /\ b.stddev = PyInt(0)
               /\ b.min_damage = PyInt(0)
               /\ b.max_damage = PyInt(0)
               /\ b.damage.int = SumInts(DamagesOf(group))
        /\ Len(values) = 1 => b.stddev = PyInt(0)

\* C4: guild_raid does not fail on a small sample: a row without non-Bomb
\* entries has avg, stddev, min and max 0 and the Bomb damage as total, a row
\* with one non-Bomb entry has stddev 0, and statistics.stdev is called with
\* two values or more only
C4_SmallSampleDefaults ==
    /\ bosses.exc # "StatisticsError"
    /\ \A values \in stdev_calls : Len(values) >= 2
    /\ bosses.exc = "" => \A i \in 1..Len(bosses.val) : RowDefaultsRight(bosses.val[i])

\* a leaderboard with a Bomb-only row and a row of one attack
C4_Witness ==
    /\ bosses.exc = ""
    /\ \E i \in 1..Len(bosses.val) :
           /\ NonBombOf(GroupOf(bosses.val[i])) = <<>>
           /\ bosses.val[i].damage.int > 0
    /\ \E i \in 1..Len(bosses.val) : Len(NonBombOf(GroupOf(bosses.val[i]))) = 1

KnownRarities == {"Common", "Uncommon", "Rare", "Epic", "Legendary", "Mythic"}

IsKnownRarity(r) == IsStr(r) /\ r.str \in KnownRarities

\* Common < Uncommon < Rare < Epic < Legendary < Mythic
RankOf(r) ==
    CASE r.str = "Common" -> 0 [] r.str = "Uncommon" -> 1 [] r.str = "Rare" -> 2
      [] r.str = "Epic" -> 3 [] r.str = "Legendary" -> 4 [] r.str = "Mythic" -> 5

\* (rank, set, totalDamage) of a is lexicographically >= that of b
TripleGeq(a, b) ==
    \/ RankOf(a.rarity) > RankOf(b.rarity)
    \/ /\ RankOf(a.rarity) = RankOf(b.rarity)
       /\ \/ a.set.int > b.set.int
          \/ a.set.int = b.set.int /\ a.damage.int >= b.damage.int

\* C5: of two leaderboard rows of known rarity, the one listed first has the
\* greater or equal (rarity rank, set, totalDamage)
C5_LeaderboardOrder ==
    bosses.exc = "" =>
        \A i, j \in 1..Len(bosses.val) :
            (i < j /\ IsKnownRarity(bosses.val[i].rarity) /\ IsKnownRarity(bosses.val[j].rarity))
                => TripleGeq(bosses.val[i], bosses.val[j])

\* an Epic row of a lower set and less damage listed before a Rare row
C5_Witness ==
    /\ bosses.exc = ""
    /\ \E i, j \in 1..Len(bosses.val) :
           /\ i < j
           /\ bosses.val[i].rarity = PyStr("Epic")
           /\ bosses.val[j].rarity = PyStr("Rare")
           /\ bosses.val[i].set.int < bosses.val[j].set.int
           /\ bosses.val[i].damage.int < bosses.val[j].damage.int

\* C6: every leaderboard row of an unranked rarity comes after every row of
\* a known rarity
C6_UnrankedLast ==
    bosses.exc = "" =>
        \A i, j \in 1..Len(bosses.val) :
            (IsKnownRarity(bosses.val[i].rarity) /\ ~IsKnownRarity(bosses.val[j].rarity))
                => i < j

\* what C7 says of one player row
PlayerRowRight(p) ==
    LET attacks == AttacksOf(p)
        values  == DamagesOf(NonBombOf(attacks))
    IN  /\ p.attack_count = Len(values)
        /\ p.total_damage.int = SumInts(DamagesOf(attacks))
        /\ values # <<>> =>
               /\ IsMeanOf(p.avg_damage, values)
               /\ IsMinOf(p.min_damage, values)
               /\ IsMaxOf(p.max_damage, values)
        /\ values = <<>> =>
               /\ p.attack_count = 0
               /\ p.avg_damage = PyInt(0)
               /\ p.min_damage = PyInt(0)
               /\ p.max_damage = PyInt(0)

\* C7: in every player row, attackCount is the number of the player's
\* filtered entries whose damageType is not "Bomb", the values avg, min and
\* max are computed over, while totalDamage includes the Bomb entries; a
\* player with Bomb entries only has a row with attackCount, avg, min and
\* max 0
C7_AttackCountSkipsBombs ==
    players.exc = "" =>
        /\ \A j \in 1..Len(players.val) : PlayerRowRight(players.val[j])
        /\ \A i \in 1..Len(BossEntries) : \E j \in 1..Len(players.val) :
               players.val[j].user_id = EntryUser(BossEntries[i])

\* a player with Bomb entries only next to a player with attacks and a bomb
C7_Witness ==
    /\ players.exc = ""
    /\ \E j \in 1..Len(players.val) :
           /\ players.val[j].attack_count = 0
           /\ players.val[j].total_damage.int > 0
    /\ \E j \in 1..Len(players.val) :
           /\ players.val[j].attack_count >= 1
           /\ Len(AttacksOf(players.val[j])) > players.val[j].attack_count

\* position of the first filtered entry of the player of row p
FirstAttack(p) ==
    CHOOSE i \in 1..Len(BossEntries) :
        /\ EntryUser(BossEntries[i]) = p.user_id
        /\ \A k \in 1..(i - 1) : EntryUser(BossEntries[k]) # p.user_id

\* C8: the player rows are listed by totalDamage descending, and players of
\* equal totalDamage in the order in which their userId first occurs among
\* the filtered entries
C8_PlayerOrderStable ==
    players.exc = "" =>
        \A i, j \in 1..Len(players.val) :
            i < j =>
                \/ players.val[i].total_damage.int > players.val[j].total_damage.int
                \/ /\ players.val[i].total_damage.int = players.val[j].total_damage.int
                   /\ FirstAttack(players.val[i]) < FirstAttack(players.val[j])

\* two players of equal totalDamage, the one with the greater userId listed
\* first because it attacked first, the other with several attacks
C8_Witness ==
    /\ players.exc = ""
    /\ Len(players.val) >= 2
    /\ players.val[1].total_damage = players.val[2].total_damage
    /\ players.val[1].user_id = PyStr("u2")
    /\ players.val[2].user_id = PyStr("u1")
    /\ Len(AttacksOf(players.val[2])) >= 2

\* an entry with every absent or non-conforming field set to its default
WithDefaults(e) ==
    LET str(k, d) == IF k \in DOMAIN e /\ IsStr(e[k]) THEN e[k] ELSE PyStr(d)
        int(k)    == IF k \in DOMAIN e /\ IsInt(e[k]) THEN e[k] ELSE PyInt(0)
    IN  [type |-> str("type", "Unknown"), rarity |-> str("rarity", "Unknown"),
         set |-> int("set"), tier |-> int("tier"), userId |-> str("userId", "Unknown"),
         damageDealt |-> int("damageDealt"), damageType |-> str("damageType", "")]

\* C10: guild_raid never raises on the entries: on every entry list it has
\* read, also with absent or null fields, it returns a leaderboard, the one
\* of the list with the affected fields at their defaults; the empty list
\* gives the empty list
C10_NeverRaises ==
    (bosses # NoResponse /\ bosses.exc # "JSONDecodeError") =>
        /\ bosses.exc = ""
        /\ bosses = guild_raid([i \in 1..Len(entries) |-> WithDefaults(entries[i])])
        /\ entries = <<>> => bosses.val = <<>>

\* the leaderboard of the entries the breakdown was computed from
Leaderboard == guild_raid(entries)

\* the leaderboard row the breakdown was opened from, 0 if there is none
RowOfBoss ==
    IF \E i \in 1..Len(Leaderboard.val) :
           <<Leaderboard.val[i].name, Leaderboard.val[i].rarity, Leaderboard.val[i].set>>
               = <<boss.name, boss.rarity, boss.set>>
    THEN CHOOSE i \in 1..Len(Leaderboard.val) :
           <<Leaderboard.val[i].name, Leaderboard.val[i].rarity, Leaderboard.val[i].set>>
               = <<boss.name, boss.rarity, boss.set>>
    ELSE 0

\* C11: the player breakdown opened from a leaderboard row (name, rarity,
\* set) is about exactly the entries grouped into that row, also when the
\* row stands for entries without type, rarity or set: once guild_raid_boss
\* has read the entries, the breakdown is returned and its totalDamage
\* values add up to the totalDamage of the row
C11_BreakdownMatchesRow ==
    (/\ players # NoResponse
     /\ players.exc # "JSONDecodeError"
     /\ Leaderboard.exc = ""
     /\ RowOfBoss # 0) =>
        /\ players.exc = ""
        /\ BossEntries = GroupOf(Leaderboard.val[RowOfBoss])
        /\ SumInts(PlayerTotals(players.val)) = Leaderboard.val[RowOfBoss].damage.int

====
